---------------------------- MODULE Spec2Model ----------------------------
(***************************************************************************)
(* A model of the Wavefront OBJ loader and mesh transforms of scop         *)
(* (src/main.cpp): the line tokenizers, the five record parsers,           *)
(* ObjectFile::load with its index normalization, the constructor and the  *)
(* part of main that builds the documents, and the transforms rotate,      *)
(* translate, scale, center and normalize.                                 *)
(*                                                                         *)
(* Text is a sequence of one-character strings.  A double is an integer    *)
(* number of 1/Unit steps; a float is a double that is a multiple of       *)
(* FloatStep, and every conversion double -> float rounds to the nearest   *)
(* such multiple.  NaN is a value of its own that every arithmetic         *)
(* operator propagates and every comparison answers FALSE on.              *)
(***************************************************************************)
EXTENDS Integers, Sequences, FiniteSets, TLC

VARIABLES
    pc,                  \* where main / the constructor / load stands
    file,                \* the lines std::getline has handed out so far
    line,                \* load's local `line`
    lineNum,             \* load's local `lineNum`
    _vertices,           \* ObjectFile::_vertices
    _texcoords,          \* ObjectFile::_texcoords
    _normals,            \* ObjectFile::_normals
    _paramSpaceVertices, \* ObjectFile::_paramSpaceVertices
    _faces,              \* ObjectFile::_faces
    _verticesCount,      \* ObjectFile::_verticesCount
    _texcoordsCount,     \* ObjectFile::_texcoordsCount
    _normalsCount,       \* ObjectFile::_normalsCount
    _scale,              \* ObjectFile::_scale
    exc,                 \* the exception in flight, or NoException
    objs,                \* main's objs[i - 1]: "unassigned" or "object"
    call,                \* the caller's latest call on the document
    ret,                 \* what the latest value-returning call returned
    ops                  \* number of transform calls made so far

vars == <<pc, file, line, lineNum, _vertices, _texcoords, _normals,
          _paramSpaceVertices, _faces, _verticesCount, _texcoordsCount,
          _normalsCount, _scale, exc, objs, call, ret, ops>>

docVars == <<_vertices, _texcoords, _normals, _paramSpaceVertices, _faces,
             _verticesCount, _texcoordsCount, _normalsCount, _scale>>

---------------------------------------------------------------------------
(* Bounds of the model.                                                    *)

\* the longest file load is given, in lines
MaxLines == 4
\* the most transform calls made on one document
MaxOps == 3
\* the largest coordinate magnitude kept, in whole units
MaxCoord == 4

(* Number representation.                                                  *)

\* steps of a double per 1.0
Unit == 1000
\* steps of a double per step of a float
FloatStep == 4
\* std::numeric_limits<int>::max()
IntMax == 2147483647

\* the two values that are no numbers of the grid
NaN == 0 - (IntMax \div 2)
Inf == IntMax \div 2
IsNaN(a) == a = NaN
Abs(a) == IF a < 0 THEN 0 - a ELSE a

\* a / b rounded to the nearest integer, ties to even (b > 0)
RoundDiv(a, b) ==
    LET q == a \div b
        r == a - q * b
    IN  IF 2 * r < b THEN q
        ELSE IF 2 * r > b THEN q + 1
        ELSE IF q % 2 = 0 THEN q ELSE q + 1

\* conversion of a double to float
ToFloat(a) == IF IsNaN(a) THEN NaN ELSE FloatStep * RoundDiv(a, FloatStep)

Add(a, b) == IF IsNaN(a) \/ IsNaN(b) THEN NaN ELSE a + b
Sub(a, b) == IF IsNaN(a) \/ IsNaN(b) THEN NaN ELSE a - b
\* product of two doubles, rounded to a double
Mul(a, b) == IF IsNaN(a) \/ IsNaN(b) THEN NaN ELSE RoundDiv(a * b, Unit)
\* quotient of two doubles, rounded to a double, for b >= 0: 0/0 is NaN and
\* any other number over zero is an infinity, written Inf whatever its sign
Div(a, b) ==
    IF IsNaN(a) \/ IsNaN(b) THEN NaN
    ELSE IF b = 0 THEN (IF a = 0 THEN NaN ELSE Inf)
    ELSE RoundDiv(a * Unit, b)
\* the float quotient of a float by a count (a size_t converted to float)
DivCount(a, n) ==
    IF IsNaN(a) THEN NaN
    ELSE IF n = 0 THEN (IF a = 0 THEN NaN ELSE Inf)
    ELSE FloatStep * RoundDiv(a, n * FloatStep)
\* comparisons: FALSE whenever an operand is NaN
Lt(a, b) == ~IsNaN(a) /\ ~IsNaN(b) /\ a < b
Gt(a, b) == ~IsNaN(a) /\ ~IsNaN(b) /\ a > b
FAbs(a) == IF IsNaN(a) THEN NaN ELSE Abs(a)

---------------------------------------------------------------------------
(* Text.                                                                   *)

SP == " "
Digits == {"0", "1", "2", "3", "4", "5", "6", "7", "8", "9"}
DigitVal(c) ==
    CASE c = "0" -> 0 [] c = "1" -> 1 [] c = "2" -> 2 [] c = "3" -> 3
      [] c = "4" -> 4 [] c = "5" -> 5 [] c = "6" -> 6 [] c = "7" -> 7
      [] c = "8" -> 8 [] c = "9" -> 9

\* the pieces of s between the delimiters: k delimiters give k + 1 pieces
RECURSIVE Pieces(_, _, _)
Pieces(s, delimiter, cur) ==
    IF s = <<>> THEN <<cur>>
    ELSE IF Head(s) = delimiter
         THEN <<cur>> \o Pieces(Tail(s), delimiter, <<>>)
         ELSE Pieces(Tail(s), delimiter, Append(cur, Head(s)))

\* std::getline hands out every piece but an empty last one
split(s, delimiter) ==
    LET p == Pieces(s, delimiter, <<>>)
    IN  IF p[Len(p)] = <<>> THEN SubSeq(p, 1, Len(p) - 1) ELSE p

split_without_empty(s, delimiter) ==
    SelectSeq(split(s, delimiter), LAMBDA t : t # <<>>)

\* std::string::substr(0, 2)
substr02(s) == SubSeq(s, 1, 2)

---------------------------------------------------------------------------
(* Exceptions.                                                             *)

\* the line number of a message that names none
NoLineNum == 0

\* type: the exception's class; what: its message without the parts that
\* vary; num: the line number the message names, or NoLineNum; token: the
\* identifier the message quotes; text: the line the message quotes
Exception(type, what, num, token, text) ==
    [type |-> type, what |-> what, num |-> num, token |-> token, text |-> text]

NoException == Exception("none", "", NoLineNum, <<>>, <<>>)

InvalidObjFileException(what, num, token, text) ==
    Exception("InvalidObjFileException", what, num, token, text)

\* what std::stod / std::stoi throw for a number outside the type's range
out_of_range(fn) == Exception("std::out_of_range", fn, NoLineNum, <<>>, <<>>)

---------------------------------------------------------------------------
(* Number parsing.  The characters of the model's lines are the digits,    *)
(* '-', '/', ' ', '#' and letters, so a number is an optional '-' followed *)
(* by digits; std::stod and std::stoi read the longest such prefix and     *)
(* ignore what follows it.                                                 *)

RECURSIVE DigitPrefix(_)
DigitPrefix(s) ==
    IF s = <<>> \/ Head(s) \notin Digits THEN <<>>
    ELSE <<Head(s)>> \o DigitPrefix(Tail(s))

\* the magnitude of a digit string, or -1 once it passes `limit`
RECURSIVE Magnitude(_, _, _)
Magnitude(ds, acc, limit) ==
    IF ds = <<>> THEN acc
    ELSE LET d == DigitVal(Head(ds))
         IN  IF acc > (limit - d) \div 10 THEN 0 - 1
             ELSE Magnitude(Tail(ds), acc * 10 + d, limit)

Number(st, val) == [st |-> st, val |-> val]

\* std::stoi: "ok" with the value, "invalid_argument" when no digit can be
\* read, "out_of_range" when the value does not fit an int
stoi(s) ==
    LET neg == s # <<>> /\ Head(s) = "-"
        ds  == DigitPrefix(IF neg THEN Tail(s) ELSE s)
        m   == Magnitude(ds, 0, IntMax)
    IN  IF ds = <<>> THEN Number("invalid_argument", 0)
        ELSE IF m < 0 THEN Number("out_of_range", 0)
        ELSE Number("ok", IF neg THEN 0 - m ELSE m)

\* std::stod on the same grammar; the value is a double.  A double holds
\* every digit string shorter than 309 digits, far longer than a line of
\* the model, so no std::out_of_range arises here.
stod(s) ==
    LET neg == s # <<>> /\ Head(s) = "-"
        ds  == DigitPrefix(IF neg THEN Tail(s) ELSE s)
        m   == Magnitude(ds, 0, IntMax)
    IN  IF ds = <<>> THEN Number("invalid_argument", 0)
        ELSE Number("ok", IF neg THEN 0 - m * Unit ELSE m * Unit)

\* the status of the first conversion of ns that fails, in call order
RECURSIVE FirstBad(_)
FirstBad(ns) ==
    IF ns = <<>> THEN "ok"
    ELSE IF Head(ns).st # "ok" THEN Head(ns).st
    ELSE FirstBad(Tail(ns))

---------------------------------------------------------------------------
(* Records and their parsers.                                              *)

ObjVertex(x, y, z, w) == [x |-> x, y |-> y, z |-> z, w |-> w]
ObjTextureCoordinate(u, v, w) == [u |-> u, v |-> v, w |-> w]
ObjNormal(x, y, z) == [x |-> x, y |-> y, z |-> z]
ObjParameterSpaceVertex(u, v, w) == [u |-> u, v |-> v, w |-> w]

\* std::optional<int>
Nullopt == [has |-> FALSE, val |-> 0]
Some(i) == [has |-> TRUE, val |-> i]

\* ObjFace::Vertex
FaceVertex(vi, ti, ni) ==
    [vertexIndex |-> vi, textureCoordinateIndex |-> ti, normalIndex |-> ni]

\* what a parser hands back: the record, or the exception it threw
Returned(val) == [ok |-> TRUE, val |-> val, exc |-> NoException]
Thrown(e) == [ok |-> FALSE, val |-> <<>>, exc |-> e]

\* the std::stod conversions a parser makes of the tokens after the first
Converted(tokens) == [i \in 1..(Len(tokens) - 1) |-> stod(tokens[i + 1])]

\* the outcome of a parser's try block around its std::stod calls, which
\* give the numbers ns and, when none fails, the record `made`
Doubles(ns, l, what, made) ==
    IF FirstBad(ns) = "invalid_argument"
    THEN Thrown(InvalidObjFileException(what, NoLineNum, <<>>, l))
    ELSE Returned(made)

parseVertex(l) ==
    LET tokens == split_without_empty(l, SP)
        ns == Converted(tokens)
    IN  IF Len(tokens) < 4 \/ Len(tokens) > 5 \/ tokens[1] # <<"v">>
        THEN Thrown(InvalidObjFileException("Invalid vertex line",
                                            NoLineNum, <<>>, l))
        ELSE Doubles(ns, l, "Invalid vertex line (invalid values)",
                             ObjVertex(ns[1].val, ns[2].val, ns[3].val,
                                 IF Len(ns) >= 4 THEN ns[4].val ELSE Unit))

parseTextureCoordinate(l) ==
    LET tokens == split_without_empty(l, SP)
        ns == Converted(tokens)
    IN  IF Len(tokens) < 2 \/ Len(tokens) > 4 \/ tokens[1] # <<"v", "t">>
        THEN Thrown(InvalidObjFileException("Invalid texture coordinate line",
                                            NoLineNum, <<>>, l))
        ELSE Doubles(ns, l,
                 "Invalid texture coordinate line (invalid values)",
                           ObjTextureCoordinate(ns[1].val,
                                 IF Len(ns) >= 2 THEN ns[2].val ELSE 0,
                                 IF Len(ns) >= 3 THEN ns[3].val ELSE 0))

parseNormal(l) ==
    LET tokens == split_without_empty(l, SP)
        ns == Converted(tokens)
    IN  IF Len(tokens) # 4 \/ tokens[1] # <<"v", "n">>
        THEN Thrown(InvalidObjFileException("Invalid normal line",
                                            NoLineNum, <<>>, l))
        ELSE Doubles(ns, l, "Invalid normal line (invalid values)",
                             ObjNormal(ns[1].val, ns[2].val, ns[3].val))

parseParameterSpaceVertex(l) ==
    LET tokens == split_without_empty(l, SP)
        ns == Converted(tokens)
    IN  IF Len(tokens) < 2 \/ Len(tokens) > 4 \/ tokens[1] # <<"v", "p">>
        THEN Thrown(InvalidObjFileException(
                        "Invalid parameter space vertex line",
                        NoLineNum, <<>>, l))
        ELSE Doubles(ns, l,
                 "Invalid parameter space vertex line (invalid values)",
                           ObjParameterSpaceVertex(ns[1].val,
                                 IF Len(ns) >= 2 THEN ns[2].val ELSE 0,
                                 IF Len(ns) >= 3 THEN ns[3].val ELSE Unit))

\* parseFaceVertex without the test for an empty second subtoken
parseFaceVertex_NoEmptyTest(token) ==
    LET subtokens == split(token, "/")
        n  == Len(subtokens)
        vi == stoi(subtokens[1])
        hasT == n >= 2
        ti == IF hasT THEN stoi(subtokens[2]) ELSE Number("ok", 0)
        hasN == n >= 3
        ni == IF hasN THEN stoi(subtokens[3]) ELSE Number("ok", 0)
    IN  IF n < 1 \/ n > 3 THEN [st |-> "malformed", val |-> <<>>]
        ELSE IF FirstBad(<<vi, ti, ni>>) # "ok"
             THEN [st |-> FirstBad(<<vi, ti, ni>>), val |-> <<>>]
             ELSE [st |-> "ok",
                   val |-> FaceVertex(vi.val,
                               IF hasT THEN Some(ti.val) ELSE Nullopt,
                               IF hasN THEN Some(ni.val) ELSE Nullopt)]

\* one pass of parseFace's loop body over the field `token`: st is "ok",
\* "malformed" (the subtoken count), or the failure of the first std::stoi
\* that fails
parseFaceVertex(token) ==
    LET subtokens == split(token, "/")
        n  == Len(subtokens)
        vi == stoi(subtokens[1])
        hasT == n >= 2 /\ subtokens[2] # <<>>
        ti == IF hasT THEN stoi(subtokens[2]) ELSE Number("ok", 0)
        hasN == n >= 3
        ni == IF hasN THEN stoi(subtokens[3]) ELSE Number("ok", 0)
    IN  IF n < 1 \/ n > 3 THEN [st |-> "malformed", val |-> <<>>]
        ELSE IF FirstBad(<<vi, ti, ni>>) # "ok"
             THEN [st |-> FirstBad(<<vi, ti, ni>>), val |-> <<>>]
             ELSE [st |-> "ok",
                   val |-> FaceVertex(vi.val,
                               IF hasT THEN Some(ti.val) ELSE Nullopt,
                               IF hasN THEN Some(ni.val) ELSE Nullopt)]

parseFace(l) ==
    LET tokens == split_without_empty(l, SP)
        vs  == [i \in 1..(Len(tokens) - 1) |-> parseFaceVertex(tokens[i + 1])]
        bad == FirstBad(vs)
    IN  IF Len(tokens) < 4 \/ tokens[1] # <<"f">>
        THEN Thrown(InvalidObjFileException("Invalid face line",
                                            NoLineNum, <<>>, l))
        ELSE IF bad = "malformed"
        THEN Thrown(InvalidObjFileException("Invalid face line",
                                            NoLineNum, <<>>, l))
        ELSE IF bad = "invalid_argument"
        THEN Thrown(InvalidObjFileException(
                        "Invalid face line (invalid values)",
                        NoLineNum, <<>>, l))
        ELSE IF bad = "out_of_range" THEN Thrown(out_of_range("stoi"))
        ELSE Returned([i \in 1..Len(vs) |-> vs[i].val])

---------------------------------------------------------------------------
(* The lines a file of the model is made of.                               *)

RECURSIVE Words(_)
Words(ws) ==
    IF Len(ws) = 1 THEN ws[1] ELSE ws[1] \o <<SP>> \o Words(Tail(ws))

kV  == <<"v">>
kVT == <<"v", "t">>
kVN == <<"v", "n">>
kVP == <<"v", "p">>
kF  == <<"f">>
n0  == <<"0">>
n1  == <<"1">>
n2  == <<"2">>
n3  == <<"3">>
m1  == <<"-", "1">>
m2  == <<"-", "2">>
nx  == <<"x">>

SkippedLines ==
    { <<>>,                                  \* a blank line
      <<"#", SP, "v">> }                     \* # v
VertexLines ==
    { Words(<<kV, n1, n2, n3>>),             \* v 1 2 3
      <<"v", SP>> \o Words(<<<<>>, n0, n0, n0, n2>>),   \* v  0 0 0 2
      Words(<<kV, n1, n2>>),                 \* v 1 2
      Words(<<kV, n1, nx, n3>>) }           \* v 1 x 3
TexcoordLines ==
    { Words(<<kVT, n1>>),                    \* vt 1
      Words(<<kVT, nx>>),                   \* vt x
      Words(<<<<"v", "t", "x">>, n1>>) }     \* vtx 1
NormalLines ==
    { Words(<<kVN, n0, n0, n1>>),            \* vn 0 0 1
      Words(<<kVN, n1, n0>>) }               \* vn 1 0
ParamLines ==
    { Words(<<kVP, n1, n2>>),                \* vp 1 2
      kVP }                                  \* vp
FaceLines ==
    { Words(<<kF, n1, n1, n1>>),             \* f 1 1 1
      Words(<<kF, n1, n2, n3>>),             \* f 1 2 3
      Words(<<kF, m1, m2, m1>>),             \* f -1 -2 -1
      Words(<<kF, n0, n1, n1>>),             \* f 0 1 1
      Words(<<kF, <<"1", "/", "1">>, <<"1", "/", "-", "1">>, n1>>),
                                             \* f 1/1 1/-1 1
      Words(<<kF, <<"1", "/", "/", "1">>, n1, <<"1", "/", "1", "/", "1">>>>),
                                             \* f 1//1 1 1/1/1
      Words(<<kF, n1, n2, <<"3", "/", "4">>>>),        \* f 1 2 3/4
      Words(<<kF, n1, <<"1", "/", "/", "2">>, n1>>),   \* f 1 1//2 1
      Words(<<kF, n1, n2>>),                 \* f 1 2
      Words(<<kF, <<"1", "/", "1", "/", "1", "/", "1">>, n1, n1>>),
                                             \* f 1/1/1/1 1 1
      Words(<<kF, n1, nx, n1>>),            \* f 1 x 1
      Words(<<kF, n1, n1,
              <<"3", "0", "0", "0", "0", "0", "0", "0", "0", "0">>>>) }
                                             \* f 1 1 3000000000
OtherLines ==
    { <<"v">>,                               \* v
      Words(<<<<"x", "x">>, n1, n2, n3>>) }  \* xx 1 2 3

Lines ==
    SkippedLines \cup VertexLines \cup TexcoordLines \cup NormalLines
        \cup ParamLines \cup FaceLines \cup OtherLines

---------------------------------------------------------------------------
(* ObjectFile::load.                                                       *)

\* normalizeIndex with -1 taken for the place after the last element
normalizeIndex_PastTheEnd(i, count) == IF i < 0 THEN count + i + 1 ELSE i - 1

\* a raw index of a face against the running count of its kind
normalizeIndex(i, count) == IF i < 0 THEN count + i ELSE i - 1

normalizeOptional(o, count) ==
    IF o.has THEN Some(normalizeIndex(o.val, count)) ELSE o

\* outOfBounds with the upper bound off by one
outOfBounds_OffByOne(index, count) == index < 0 \/ index > count

\* the bound check; `index >= count` compares as size_t, where a negative
\* index is larger than any count
outOfBounds(index, count) == index < 0 \/ index >= count

normalizeFaceVertex(v, vCount, tCount, nCount) ==
    FaceVertex(normalizeIndex(v.vertexIndex, vCount),
               normalizeOptional(v.textureCoordinateIndex, tCount),
               normalizeOptional(v.normalIndex, nCount))

\* what the checks at the end of the loop body throw for a normalized
\* reference: "" for nothing
boundsFailure(v, vCount, tCount, nCount) ==
    IF outOfBounds(v.vertexIndex, vCount)
    THEN "is invalid (vertex index out of bounds)"
    ELSE IF v.textureCoordinateIndex.has
            /\ outOfBounds(v.textureCoordinateIndex.val, tCount)
    THEN "is invalid (texture coordinate index out of bounds)"
    ELSE IF v.normalIndex.has /\ outOfBounds(v.normalIndex.val, nCount)
    THEN "is invalid (normal index out of bounds)"
    ELSE ""

\* the first failure of the loop over face.vertices, or ""
RECURSIVE firstBoundsFailure(_, _, _, _)
firstBoundsFailure(vs, vCount, tCount, nCount) ==
    IF vs = <<>> THEN ""
    ELSE IF boundsFailure(Head(vs), vCount, tCount, nCount) # ""
    THEN boundsFailure(Head(vs), vCount, tCount, nCount)
    ELSE firstBoundsFailure(Tail(vs), vCount, tCount, nCount)

normalizeFace(face, vCount, tCount, nCount) ==
    [i \in 1..Len(face) |->
        normalizeFaceVertex(face[i], vCount, tCount, nCount)]

\* isSkipped without the test for a comment
isSkipped_BlankOnly(l) == Len(l) = 0

isSkipped(l) == IF Len(l) = 0 THEN TRUE ELSE l[1] = "#"

\* std::getline hands out the next line and the loop counts it
getline(l) ==
    /\ pc = "load"
    /\ file' = Append(file, l)
    /\ line' = l
    /\ lineNum' = lineNum + 1

\* the statement `throw e` inside load
throw(e) ==
    /\ exc' = e
    /\ pc' = "thrown"

LoadSkip(l) ==
    /\ getline(l)
    /\ isSkipped(l)
    /\ UNCHANGED <<docVars, pc, exc, objs, call, ret, ops>>

LoadTooShort(l) ==
    /\ getline(l)
    /\ ~isSkipped(l)
    /\ Len(l) < 2
    /\ throw(InvalidObjFileException("is invalid (too short)",
                                     lineNum + 1, <<>>, <<>>))
    /\ UNCHANGED <<docVars, objs, call, ret, ops>>

dispatched(l, identifier) ==
    /\ getline(l)
    /\ ~isSkipped(l)
    /\ Len(l) >= 2
    /\ substr02(l) = identifier

LoadVertex(l) ==
    /\ dispatched(l, <<"v", SP>>)
    /\ LET r == parseVertex(l)
       IN  IF r.ok
           THEN /\ _vertices' = Append(_vertices, r.val)
                /\ _verticesCount' = _verticesCount + 1
                /\ UNCHANGED <<pc, exc>>
           ELSE /\ throw(r.exc)
                /\ UNCHANGED <<_vertices, _verticesCount>>
    /\ UNCHANGED <<_texcoords, _normals, _paramSpaceVertices, _faces,
                   _texcoordsCount, _normalsCount, _scale, objs, call, ret, ops>>

LoadTextureCoordinate(l) ==
    /\ dispatched(l, <<"v", "t">>)
    /\ LET r == parseTextureCoordinate(l)
       IN  IF r.ok
           THEN /\ _texcoords' = Append(_texcoords, r.val)
                /\ _texcoordsCount' = _texcoordsCount + 1
                /\ UNCHANGED <<pc, exc>>
           ELSE /\ throw(r.exc)
                /\ UNCHANGED <<_texcoords, _texcoordsCount>>
    /\ UNCHANGED <<_vertices, _normals, _paramSpaceVertices, _faces,
                   _verticesCount, _normalsCount, _scale, objs, call, ret, ops>>

LoadNormal(l) ==
    /\ dispatched(l, <<"v", "n">>)
    /\ LET r == parseNormal(l)
       IN  IF r.ok
           THEN /\ _normals' = Append(_normals, r.val)
                /\ _normalsCount' = _normalsCount + 1
                /\ UNCHANGED <<pc, exc>>
           ELSE /\ throw(r.exc)
                /\ UNCHANGED <<_normals, _normalsCount>>
    /\ UNCHANGED <<_vertices, _texcoords, _paramSpaceVertices, _faces,
                   _verticesCount, _texcoordsCount, _scale, objs, call, ret, ops>>

\* LoadParameterSpaceVertex counting the record as a vertex
LoadParameterSpaceVertex_CountsVertex(l) ==
    /\ dispatched(l, <<"v", "p">>)
    /\ LET r == parseParameterSpaceVertex(l)
       IN  IF r.ok
           THEN /\ _paramSpaceVertices' = Append(_paramSpaceVertices, r.val)
                /\ _verticesCount' = _verticesCount + 1
                /\ UNCHANGED <<pc, exc>>
           ELSE /\ throw(r.exc)
                /\ UNCHANGED <<_paramSpaceVertices, _verticesCount>>
    /\ UNCHANGED <<_vertices, _texcoords, _normals, _faces,
                   _texcoordsCount, _normalsCount, _scale, objs, call, ret, ops>>

LoadParameterSpaceVertex(l) ==
    /\ dispatched(l, <<"v", "p">>)
    /\ LET r == parseParameterSpaceVertex(l)
       IN  IF r.ok
           THEN /\ _paramSpaceVertices' = Append(_paramSpaceVertices, r.val)
                /\ UNCHANGED <<pc, exc>>
           ELSE /\ throw(r.exc)
                /\ UNCHANGED _paramSpaceVertices
    /\ UNCHANGED <<_vertices, _texcoords, _normals, _faces, _verticesCount,
                   _texcoordsCount, _normalsCount, _scale, objs, call, ret, ops>>

LoadFace(l) ==
    /\ dispatched(l, <<"f", SP>>)
    /\ LET r == parseFace(l)
           face == normalizeFace(r.val, _verticesCount, _texcoordsCount,
                                 _normalsCount)
           failure == firstBoundsFailure(face, _verticesCount,
                                         _texcoordsCount, _normalsCount)
       IN  IF ~r.ok
           THEN /\ throw(r.exc)
                /\ UNCHANGED _faces
           ELSE IF failure # ""
           THEN /\ throw(InvalidObjFileException(failure, lineNum + 1,
                                                 <<>>, <<>>))
                /\ UNCHANGED _faces
           ELSE /\ _faces' = Append(_faces, face)
                /\ UNCHANGED <<pc, exc>>
    /\ UNCHANGED <<_vertices, _texcoords, _normals, _paramSpaceVertices,
                   _verticesCount, _texcoordsCount, _normalsCount, _scale,
                   objs, call, ret, ops>>

Identifiers == {<<"v", SP>>, <<"v", "t">>, <<"v", "n">>, <<"v", "p">>,
                <<"f", SP>>}

\* LoadUnknown naming the line by the count of the lines before it
LoadUnknown_ZeroBased(l) ==
    /\ getline(l)
    /\ ~isSkipped(l)
    /\ Len(l) >= 2
    /\ substr02(l) \notin {<<"v", SP>>, <<"v", "t">>, <<"v", "n">>,
                           <<"v", "p">>, <<"f", SP>>}
    /\ throw(InvalidObjFileException("unknown token", lineNum,
                                     substr02(l), <<>>))
    /\ UNCHANGED <<docVars, objs, call, ret, ops>>

LoadUnknown(l) ==
    /\ getline(l)
    /\ ~isSkipped(l)
    /\ Len(l) >= 2
    /\ substr02(l) \notin Identifiers
    /\ throw(InvalidObjFileException("unknown token", lineNum + 1,
                                     substr02(l), <<>>))
    /\ UNCHANGED <<docVars, objs, call, ret, ops>>

\* std::getline finds the end of the file: the loop ends and load returns
LoadEof ==
    /\ pc = "load"
    /\ pc' = "loaded"
    /\ line' = <<>>
    /\ UNCHANGED <<docVars, file, lineNum, exc, objs, call, ret, ops>>

---------------------------------------------------------------------------
(* The transforms.                                                         *)

vec3(x, y, z) == [x |-> x, y |-> y, z |-> z]

\* the float sum of one coordinate over the vertex sequence: x += vertex.x
RECURSIVE Accumulate(_, _, _)
Accumulate(vs, coord, sum) ==
    IF vs = <<>> THEN sum
    ELSE Accumulate(Tail(vs), coord, ToFloat(Add(sum, Head(vs)[coord])))

getCenterPoint(vs) ==
    vec3(DivCount(Accumulate(vs, "x", 0), Len(vs)),
         DivCount(Accumulate(vs, "y", 0), Len(vs)),
         DivCount(Accumulate(vs, "z", 0), Len(vs)))

\* cos and sin of an angle in degrees, on the multiples of 90
cosDeg(a) ==
    CASE a % 360 = 0 -> Unit [] a % 360 = 90 -> 0
      [] a % 360 = 180 -> 0 - Unit [] a % 360 = 270 -> 0
sinDeg(a) ==
    CASE a % 360 = 0 -> 0 [] a % 360 = 90 -> Unit
      [] a % 360 = 180 -> 0 [] a % 360 = 270 -> 0 - Unit

rotateVertex(vertex, c, angleX, angleY, angleZ) ==
    LET F(a) == ToFloat(a)
        v  == vec3(F(Sub(vertex.x, c.x)), F(Sub(vertex.y, c.y)),
                   F(Sub(vertex.z, c.z)))
        v2 == vec3(v.x,
                   F(Sub(Mul(v.y, cosDeg(angleX)), Mul(v.z, sinDeg(angleX)))),
                   F(Add(Mul(v.y, sinDeg(angleX)), Mul(v.z, cosDeg(angleX)))))
        v3 == vec3(F(Add(Mul(v2.x, cosDeg(angleY)), Mul(v2.z, sinDeg(angleY)))),
                   v2.y,
                   F(Add(Mul(Sub(0, v2.x), sinDeg(angleY)),
                         Mul(v2.z, cosDeg(angleY)))))
        v4 == vec3(F(Sub(Mul(v3.x, cosDeg(angleZ)), Mul(v3.y, sinDeg(angleZ)))),
                   F(Add(Mul(v3.x, sinDeg(angleZ)), Mul(v3.y, cosDeg(angleZ)))),
                   v3.z)
    IN  vec3(F(Add(v4.x, c.x)), F(Add(v4.y, c.y)), F(Add(v4.z, c.z)))

\* the vertex sequence with x, y and z of vertex i replaced by those of
\* pos[i]
moved(vs, pos) ==
    [i \in 1..Len(vs) |-> ObjVertex(pos[i].x, pos[i].y, pos[i].z, vs[i].w)]

rotate(vs, angleXDeg, angleYDeg, angleZDeg) ==
    LET centerPoint == getCenterPoint(vs)
    IN  moved(vs, [i \in 1..Len(vs) |->
                  rotateVertex(vs[i], centerPoint, angleXDeg, angleYDeg,
                               angleZDeg)])

\* translate moving w along with x
translate_MovesW(vs, x, y, z) ==
    [i \in 1..Len(vs) |->
        ObjVertex(Add(vs[i].x, x), Add(vs[i].y, y), Add(vs[i].z, z),
                  Add(vs[i].w, x))]

translate(vs, x, y, z) ==
    moved(vs, [i \in 1..Len(vs) |->
                  vec3(Add(vs[i].x, x), Add(vs[i].y, y), Add(vs[i].z, z))])

\* the float literals 0.01f and 2.0f of scale's guard
MinScale == ToFloat(Unit \div 100)
MaxScale == ToFloat(2 * Unit)

\* scale's guard: TRUE when the call returns without doing anything
scaleRefused(s, factor) ==
    \/ factor = 0
    \/ Lt(Mul(s, factor), MinScale)
    \/ Gt(Mul(s, factor), MaxScale)

\* what scale leaves in _scale (s) and _vertices (vs)
scale(s, vs, factor) ==
    IF scaleRefused(s, factor) THEN [s |-> s, vs |-> vs]
    ELSE LET centerPoint == getCenterPoint(vs)
         IN  [s  |-> Mul(s, factor),
              vs |-> moved(vs, [i \in 1..Len(vs) |->
                   vec3(Add(centerPoint.x,
                            Mul(Sub(vs[i].x, centerPoint.x), factor)),
                        Add(centerPoint.y,
                            Mul(Sub(vs[i].y, centerPoint.y), factor)),
                        Add(centerPoint.z,
                            Mul(Sub(vs[i].z, centerPoint.z), factor)))])]

\* center adding the center point
center_Adds(vs) ==
    LET centerPoint == getCenterPoint(vs)
    IN  moved(vs, [i \in 1..Len(vs) |->
                      vec3(Add(vs[i].x, centerPoint.x),
                           Add(vs[i].y, centerPoint.y),
                           Add(vs[i].z, centerPoint.z))])

center(vs) ==
    LET centerPoint == getCenterPoint(vs)
    IN  moved(vs, [i \in 1..Len(vs) |->
                      vec3(Sub(vs[i].x, centerPoint.x),
                           Sub(vs[i].y, centerPoint.y),
                           Sub(vs[i].z, centerPoint.z))])

\* one `if (std::abs(c) > max) max = std::abs(c);`, max being a float
larger(max, c) == IF Gt(FAbs(c), max) THEN ToFloat(FAbs(c)) ELSE max

RECURSIVE maxExtent(_, _)
maxExtent(vs, max) ==
    IF vs = <<>> THEN max
    ELSE maxExtent(Tail(vs),
                   larger(larger(larger(max, Head(vs).x), Head(vs).y),
                          Head(vs).z))

normalize(vs) ==
    LET centerPoint == getCenterPoint(vs)
        max == maxExtent(vs, 0)
    IN  moved(vs, [i \in 1..Len(vs) |->
                      vec3(Div(Sub(vs[i].x, centerPoint.x), max),
                           Div(Sub(vs[i].y, centerPoint.y), max),
                           Div(Sub(vs[i].z, centerPoint.z), max))])

---------------------------------------------------------------------------
(* The constructor and main.                                               *)

NoCall == [op |-> "", args |-> <<>>]
Call(op, args) == [op |-> op, args |-> args]
NoReturn == [set |-> FALSE, x |-> 0, y |-> 0, z |-> 0]

\* ObjectFile(filename), after load(filename) has returned: normalize()
Construct ==
    /\ pc = "loaded"
    /\ _vertices' = normalize(_vertices)
    /\ pc' = "constructed"
    /\ UNCHANGED <<file, line, lineNum, _texcoords, _normals,
                   _paramSpaceVertices, _faces, _verticesCount,
                   _texcoordsCount, _normalsCount, _scale, exc, objs, call,
                   ret, ops>>

\* objs[i - 1] = new ObjectFile(...)
MainStore ==
    /\ pc = "constructed"
    /\ objs' = "object"
    /\ pc' = "ready"
    /\ UNCHANGED <<file, line, lineNum, docVars, exc, call, ret, ops>>

\* MainCatch with a handler that keeps what the constructor had built
MainCatch_KeepsDocument ==
    /\ pc = "thrown"
    /\ pc' = "exit_failure"
    /\ objs' = "object"
    /\ UNCHANGED <<file, line, lineNum, docVars, exc, call, ret, ops>>

\* the exception leaves load and the constructor: the members built so far
\* are destroyed and the storage released, objs[i - 1] is not assigned, and
\* main's handler prints e.what() and returns EXIT_FAILURE
MainCatch ==
    /\ pc = "thrown"
    /\ pc' = "exit_failure"
    /\ _vertices' = <<>>
    /\ _texcoords' = <<>>
    /\ _normals' = <<>>
    /\ _paramSpaceVertices' = <<>>
    /\ _faces' = <<>>
    /\ _verticesCount' = 0
    /\ _texcoordsCount' = 0
    /\ _normalsCount' = 0
    /\ UNCHANGED <<file, line, lineNum, _scale, exc, objs, call, ret, ops>>

---------------------------------------------------------------------------
(* Calls on a constructed document.                                        *)

\* every coordinate is NaN or within the model's range
InRange(vs) ==
    \A i \in 1..Len(vs) :
        \A c \in {vs[i].x, vs[i].y, vs[i].z} :
            IsNaN(c) \/ Abs(c) <= MaxCoord * Unit

\* a transform call that leaves `vs` in _vertices
transformed(op, args, vs) ==
    /\ pc \in {"ready", "centered"}
    /\ ops < MaxOps
    /\ InRange(vs)
    /\ _vertices' = vs
    /\ call' = Call(op, args)
    /\ ret' = NoReturn
    /\ ops' = ops + 1
    /\ pc' = IF op = "center" THEN "centered" ELSE "ready"
    /\ UNCHANGED <<file, line, lineNum, _texcoords, _normals,
                   _paramSpaceVertices, _faces, _verticesCount,
                   _texcoordsCount, _normalsCount, exc, objs>>

CallRotate(ax, ay, az) ==
    /\ transformed("rotate", <<ax, ay, az>>, rotate(_vertices, ax, ay, az))
    /\ UNCHANGED _scale

CallTranslate(x, y, z) ==
    /\ transformed("translate", <<x, y, z>>, translate(_vertices, x, y, z))
    /\ UNCHANGED _scale

CallScale(factor) ==
    /\ transformed("scale", <<factor>>, scale(_scale, _vertices, factor).vs)
    /\ _scale' = scale(_scale, _vertices, factor).s

CallCenter ==
    /\ transformed("center", <<>>, center(_vertices))
    /\ UNCHANGED _scale

CallNormalize ==
    /\ transformed("normalize", <<>>, normalize(_vertices))
    /\ UNCHANGED _scale

CallGetCenterPoint ==
    /\ pc \in {"ready", "centered"}
    /\ ret' = [set |-> TRUE] @@ getCenterPoint(_vertices)
    /\ call' = Call("getCenterPoint", <<>>)
    /\ UNCHANGED <<pc, file, line, lineNum, docVars, exc, objs, ops>>

\* the arguments the calls of the model are made with: floats
RotateArgs == {<<90, 0, 0>>, <<0, 180, 90>>}
TranslateArgs == {<<Unit, 0, 0>>, <<0, 0 - ToFloat(Unit \div 2), FloatStep>>}
ScaleArgs == {0, NaN, MinScale, ToFloat(Unit \div 2), MaxScale, 0 - Unit,
              ToFloat((3 * Unit) \div 2)}

---------------------------------------------------------------------------
(* The specifications.                                                     *)

Init ==
    /\ pc = "load"
    /\ file = <<>>
    /\ line = <<>>
    /\ lineNum = 0
    /\ _vertices = <<>>
    /\ _texcoords = <<>>
    /\ _normals = <<>>
    /\ _paramSpaceVertices = <<>>
    /\ _faces = <<>>
    /\ _verticesCount = 0
    /\ _texcoordsCount = 0
    /\ _normalsCount = 0
    /\ _scale = Unit
    /\ exc = NoException
    /\ objs = "unassigned"
    /\ call = NoCall
    /\ ret = NoReturn
    /\ ops = 0

\* the lines std::getline may hand out next: the file is any sequence of at
\* most MaxLines lines of Lines
Offered == IF Len(file) < MaxLines THEN Lines ELSE {}

\* main builds one document from such a file
Next ==
    \/ \E l \in Offered : LoadSkip(l)
    \/ \E l \in Offered : LoadTooShort(l)
    \/ \E l \in Offered : LoadVertex(l)
    \/ \E l \in Offered : LoadTextureCoordinate(l)
    \/ \E l \in Offered : LoadNormal(l)
    \/ \E l \in Offered : LoadParameterSpaceVertex(l)
    \/ \E l \in Offered : LoadFace(l)
    \/ \E l \in Offered : LoadUnknown(l)
    \/ LoadEof
    \/ Construct
    \/ MainStore
    \/ MainCatch

Spec == Init /\ [][Next]_vars

---------------------------------------------------------------------------
(* The documents the transforms are called on: main builds one from one of *)
(* these files, and the calls follow once objs[i - 1] holds it.            *)

SampleFiles ==
    { <<>>,
      << <<"#", SP, "v">>,
         Words(<<kV, n1, n2, n3>>),
         Words(<<kF, n1, n1, n1>>) >>,
      << <<"v", SP>> \o Words(<<<<>>, n0, n0, n0, n2>>),
         Words(<<kF, m1, m1, m1>>) >>,
      << Words(<<kV, n0, n0, n0>>),
         Words(<<kV, n2, n0, n0>>) >>,
      << Words(<<kV, n0, n0, n0>>),
         Words(<<kV, n1, n0, n0>>),
         Words(<<kV, n1, n1, n0>>),
         Words(<<kF, n1, n2, n3>>) >>,
      << Words(<<kV, n1, n2, n3>>),
         Words(<<kV, n0, n0, n1>>),
         Words(<<kVT, n1>>),
         Words(<<kVN, n0, n0, n1>>),
         Words(<<kVP, n1, n2>>),
         Words(<<kF, <<"1", "/", "1", "/", "1">>, <<"2", "/", "/", "1">>,
                 m1>>) >>,
      << <<"v">> >>,
      << Words(<<<<"x", "x">>, n1, n2, n3>>) >> }

\* the next line of the sample files that start with the lines read so far
OfferedSample ==
    { f[Len(file) + 1] :
        f \in { g \in SampleFiles :
                  Len(g) > Len(file) /\ SubSeq(g, 1, Len(file)) = file } }

LoadEofSample ==
    /\ file \in SampleFiles
    /\ LoadEof

NextT ==
    \/ \E l \in OfferedSample : LoadSkip(l)
    \/ \E l \in OfferedSample : LoadTooShort(l)
    \/ \E l \in OfferedSample : LoadVertex(l)
    \/ \E l \in OfferedSample : LoadTextureCoordinate(l)
    \/ \E l \in OfferedSample : LoadNormal(l)
    \/ \E l \in OfferedSample : LoadParameterSpaceVertex(l)
    \/ \E l \in OfferedSample : LoadFace(l)
    \/ \E l \in OfferedSample : LoadUnknown(l)
    \/ LoadEofSample
    \/ Construct
    \/ MainStore
    \/ MainCatch
    \/ \E a \in RotateArgs : CallRotate(a[1], a[2], a[3])
    \/ \E a \in TranslateArgs : CallTranslate(a[1], a[2], a[3])
    \/ \E factor \in ScaleArgs : CallScale(factor)
    \/ CallCenter
    \/ CallNormalize
    \/ CallGetCenterPoint

SpecT == Init /\ [][NextT]_vars

---------------------------------------------------------------------------
(* The face parser and the index normalization on their own: one call on   *)
(* drawn arguments.                                                        *)

\* the largest running count a reference is normalized against
MaxCount == 6
\* the largest magnitude of a raw index
MaxRaw == 7

\* the fields a face line of these calls is made of
FaceFields ==
    { n1, n2, <<"3", "/", "4">>, <<"1", "/", "/", "2">>,
      <<"-", "1", "/", "2", "/", "3">> }

FaceInputs ==
    { Words(<<kF, a, b, c>>) : a \in FaceFields, b \in FaceFields,
                               c \in FaceFields }
    \cup { Words(<<kF, a, n1, n2, a>>) : a \in FaceFields }

\* the raw reference and the three counts of a drawn normalization: the
\* index i stands in the place `kind` names, against the count n
rawVertex(kind, i) ==
    CASE kind = "vertex"  -> FaceVertex(i, Nullopt, Nullopt)
      [] kind = "texture" -> FaceVertex(1, Some(i), Nullopt)
      [] kind = "normal"  -> FaceVertex(1, Nullopt, Some(i))
countOf(kind, of, n) == IF kind = of THEN n ELSE IF of = "vertex" THEN 1 ELSE 0

PureCalls ==
    { Call("parseFace", <<l>>) : l \in FaceInputs }
    \cup { Call("normalize index", <<kind, i, n>>) :
             kind \in {"vertex", "texture", "normal"},
             i \in (0 - MaxRaw)..MaxRaw, n \in 0..MaxCount }

InitCall ==
    /\ pc = "call"
    /\ call \in PureCalls
    /\ file = <<>>
    /\ line = <<>>
    /\ lineNum = 0
    /\ _vertices = <<>>
    /\ _texcoords = <<>>
    /\ _normals = <<>>
    /\ _paramSpaceVertices = <<>>
    /\ _faces = <<>>
    /\ _verticesCount = 0
    /\ _texcoordsCount = 0
    /\ _normalsCount = 0
    /\ _scale = Unit
    /\ exc = NoException
    /\ objs = "unassigned"
    /\ ret = NoReturn
    /\ ops = 0

returned(value) ==
    /\ pc = "call"
    /\ ret' = value
    /\ pc' = "returned"
    /\ UNCHANGED <<file, line, lineNum, docVars, exc, objs, call, ops>>

ApplyParseFace ==
    /\ call.op = "parseFace"
    /\ returned(parseFace(call.args[1]))

\* one pass of the loop of load over face.vertices
ApplyNormalizeIndex ==
    /\ call.op = "normalize index"
    /\ LET kind == call.args[1]
           i == call.args[2]
           n == call.args[3]
           vCount == countOf(kind, "vertex", n)
           tCount == countOf(kind, "texture", n)
           nCount == countOf(kind, "normal", n)
           v == normalizeFaceVertex(rawVertex(kind, i), vCount, tCount, nCount)
       IN  returned([val |-> v,
                     failure |-> boundsFailure(v, vCount, tCount, nCount)])

NextCall == ApplyParseFace \/ ApplyNormalizeIndex

SpecCall == InitCall /\ [][NextCall]_vars

---------------------------------------------------------------------------
(* Properties of load.                                                     *)

\* whether line l starts with the two characters `identifier`
StartsWith(l, identifier) == Len(l) >= 2 /\ substr02(l) = identifier

\* the number of lines among the first k of the file that start with
\* `identifier`
RECURSIVE CountLines(_, _)
CountLines(k, identifier) ==
    IF k = 0 THEN 0
    ELSE CountLines(k - 1, identifier)
         + (IF StartsWith(file[k], identifier) THEN 1 ELSE 0)

\* the number of the k-th line of the file that starts with "f "
RECURSIVE FaceLineNum(_, _)
FaceLineNum(k, from) ==
    IF StartsWith(file[from], <<"f", SP>>)
    THEN (IF k = 1 THEN from ELSE FaceLineNum(k - 1, from + 1))
    ELSE FaceLineNum(k, from + 1)

Within(index, count) == 0 <= index /\ index < count
WithinOptional(o, count) == o.has => Within(o.val, count)

BoundsMessages ==
    { "is invalid (vertex index out of bounds)",
      "is invalid (texture coordinate index out of bounds)",
      "is invalid (normal index out of bounds)" }

\* C1: every reference of every stored face indexes a 'v' line (and, when
\* present, a 'vt' and a 'vn' line) that stands before the face's own line
\* in the file; and a face line that parses but names a vertex beyond the
\* 'v' lines before it makes load throw an index-out-of-bounds error and
\* stores no face.
C1_FaceRefsWithinSeenCounts ==
    /\ \A k \in 1..Len(_faces) :
         LET before == FaceLineNum(k, 1) - 1
         IN  \A i \in 1..Len(_faces[k]) :
               /\ Within(_faces[k][i].vertexIndex,
                         CountLines(before, <<"v", SP>>))
               /\ WithinOptional(_faces[k][i].textureCoordinateIndex,
                                 CountLines(before, <<"v", "t">>))
               /\ WithinOptional(_faces[k][i].normalIndex,
                                 CountLines(before, <<"v", "n">>))
    /\ (/\ lineNum >= 1
        /\ pc \in {"load", "thrown"}
        /\ StartsWith(line, <<"f", SP>>)
        /\ parseFace(line).ok
        /\ \E i \in 1..Len(parseFace(line).val) :
             parseFace(line).val[i].vertexIndex
                 > CountLines(lineNum - 1, <<"v", SP>>))
       => /\ pc = "thrown"
          /\ exc.type = "InvalidObjFileException"
          /\ exc.what \in BoundsMessages
          /\ Len(_faces) = CountLines(lineNum - 1, <<"f", SP>>)

\* a face with a relative reference to the first of two vertices is stored,
\* and a face line naming a third vertex has failed before
C1_Witness ==
    /\ pc = "load"
    /\ lineNum = 3
    /\ Len(_faces) = 1
    /\ _verticesCount = 2
    /\ \E i \in 1..Len(_faces[1]) : _faces[1][i].vertexIndex = 0
    /\ \E i \in 1..Len(_faces[1]) : _faces[1][i].vertexIndex = 1

FailedStep ==
    pc \in {"thrown", "exit_failure"}
         => /\ pc = "thrown"
            /\ pc' = "exit_failure"
            /\ file' = file
            /\ lineNum' = lineNum
            /\ objs = "unassigned"
            /\ objs' = "unassigned"
            /\ _vertices' = <<>>
            /\ _texcoords' = <<>>
            /\ _normals' = <<>>
            /\ _paramSpaceVertices' = <<>>
            /\ _faces' = <<>>

\* C3: once a line has failed, load reads no further line, the only step
\* left is main's handler, and it leaves main without a document: objs[i-1]
\* is not assigned and nothing holds the records read before the failure.
C3_FailFastNoDocument == [][FailedStep]_vars

\* main has given up on a file whose third line failed after a vertex line
C3_Witness ==
    /\ pc = "exit_failure"
    /\ lineNum = 3
    /\ Len(file) = 3
    /\ CountLines(2, <<"v", SP>>) >= 1
    /\ objs = "unassigned"

LoadMessages ==
    BoundsMessages \cup {"is invalid (too short)", "unknown token"}

ParserMessages(identifier) ==
    CASE identifier = <<"v", SP>> ->
           {"Invalid vertex line", "Invalid vertex line (invalid values)"}
      [] identifier = <<"v", "t">> ->
           {"Invalid texture coordinate line",
            "Invalid texture coordinate line (invalid values)"}
      [] identifier = <<"v", "n">> ->
           {"Invalid normal line", "Invalid normal line (invalid values)"}
      [] identifier = <<"v", "p">> ->
           {"Invalid parameter space vertex line",
            "Invalid parameter space vertex line (invalid values)"}
      [] identifier = <<"f", SP>> ->
           {"Invalid face line", "Invalid face line (invalid values)", "stoi"}
           \cup BoundsMessages

\* the sequences of the document, in the order of Identifiers' parsers
Sequences5 ==
    <<_vertices, _texcoords, _normals, _paramSpaceVertices, _faces>>
SequenceOf(identifier) ==
    CASE identifier = <<"v", SP>> -> 1 [] identifier = <<"v", "t">> -> 2
      [] identifier = <<"v", "n">> -> 3 [] identifier = <<"v", "p">> -> 4
      [] identifier = <<"f", SP>> -> 5

ClassifiedStep ==
    Len(file') = Len(file) + 1 =>
        LET l == file'[Len(file')]
            n == Len(file')
            failedWith(whats) ==
                /\ pc' = "thrown"
                /\ exc'.what \in whats
                /\ UNCHANGED docVars
        IN  /\ lineNum' = n
            /\ line' = l
            /\ IF Len(l) = 0 THEN UNCHANGED <<docVars, exc, pc>>
               ELSE IF l[1] = "#" THEN UNCHANGED <<docVars, exc, pc>>
               ELSE IF Len(l) < 2
               THEN /\ failedWith({"is invalid (too short)"})
                    /\ exc'.num = n
               ELSE IF substr02(l) \in Identifiers
               THEN \/ failedWith(ParserMessages(substr02(l)))
                    \/ /\ UNCHANGED <<exc, pc>>
                       /\ \A j \in 1..5 :
                            Len(Sequences5'[j]) = Len(Sequences5[j])
                              + (IF j = SequenceOf(substr02(l)) THEN 1 ELSE 0)
               ELSE /\ failedWith({"unknown token"})
                    /\ exc'.token = substr02(l)
                    /\ exc'.num = n

\* C5: each line read is classified by this rule: an empty line and a line
\* starting with '#' change nothing; another line shorter than 2 characters
\* fails as too short; the first two characters "v ", "vt", "vn", "vp", "f "
\* hand the line to that record's parser (it appends one record to that
\* record's sequence and to no other, or it fails with that parser's error);
\* any other two characters fail as an unknown token naming them; and the
\* number named is the line's 1-based position in the file, skipped lines
\* counted.
C5_LineClassification == [][ClassifiedStep]_vars

\* an unknown token on line 3, after a blank line and a comment line
C5_Witness ==
    /\ pc = "thrown"
    /\ exc.what = "unknown token"
    /\ exc.num = 3
    /\ Len(file) = 3
    /\ file[1] = <<>>
    /\ file[2] = <<"#", SP, "v">>
    /\ exc.token = <<"x", "x">>

---------------------------------------------------------------------------
(* Properties of the index normalization and of the face parser.           *)

\* the index of the kind a drawn normalization is about
indexOfKind(v, kind) ==
    CASE kind = "vertex"  -> v.vertexIndex
      [] kind = "texture" -> v.textureCoordinateIndex.val
      [] kind = "normal"  -> v.normalIndex.val

messageOfKind(kind) ==
    CASE kind = "vertex"  -> "is invalid (vertex index out of bounds)"
      [] kind = "texture" ->
           "is invalid (texture coordinate index out of bounds)"
      [] kind = "normal"  -> "is invalid (normal index out of bounds)"

\* C2: a raw index i against the running count n is normalized to n + i
\* when i < 0 and to i - 1 when i >= 0, and is accepted exactly when the
\* result is in 0..n-1; with n = 5, -1 gives 4, -5 gives 0, and -6, 0 and
\* n + 1 are rejected.
C2_IndexNormalization ==
    (pc = "returned" /\ call.op = "normalize index") =>
        LET kind == call.args[1]
            i == call.args[2]
            n == call.args[3]
            normalized == indexOfKind(ret.val, kind)
            accepted == ret.failure = ""
        IN  /\ i < 0 => normalized = n + i
            /\ i >= 0 => normalized = i - 1
            /\ accepted <=> (0 <= normalized /\ normalized < n)
            /\ ~accepted => ret.failure = messageOfKind(kind)
            /\ (n = 5 /\ i = 0 - 1) => (accepted /\ normalized = 4)
            /\ (n = 5 /\ i = 0 - 5) => (accepted /\ normalized = 0)
            /\ (n = 5 /\ i = 0 - 6) => ~accepted
            /\ i = 0 => ~accepted
            /\ i = n + 1 => ~accepted

\* against 5 vertices, -5 has been resolved to the first of them
C2_Witness ==
    /\ pc = "returned"
    /\ call.op = "normalize index"
    /\ call.args = <<"vertex", 0 - 5, 5>>
    /\ ret.val.vertexIndex = 0
    /\ ret.failure = ""

\* the places of '/' in a field
Slashes(t) == {i \in 1..Len(t) : t[i] = "/"}
Least(S) == CHOOSE i \in S : \A j \in S : i <= j
Greatest(S) == CHOOSE i \in S : \A j \in S : i >= j
\* the integer a well-formed piece of a field denotes
IntOf(t) == stoi(t).val

\* the reference the forms a, a/b, a//c and a/b/c denote
ReferenceOf(t) ==
    LET sl == Slashes(t)
        p == Least(sl)
        q == Greatest(sl)
    IN  IF sl = {} THEN FaceVertex(IntOf(t), Nullopt, Nullopt)
        ELSE IF Cardinality(sl) = 1
        THEN FaceVertex(IntOf(SubSeq(t, 1, p - 1)),
                        Some(IntOf(SubSeq(t, p + 1, Len(t)))), Nullopt)
        ELSE FaceVertex(IntOf(SubSeq(t, 1, p - 1)),
                        IF q = p + 1 THEN Nullopt
                        ELSE Some(IntOf(SubSeq(t, p + 1, q - 1))),
                        Some(IntOf(SubSeq(t, q + 1, Len(t)))))

\* C10: parseFace accepts a face line of at least 3 well-formed references
\* and gives each reference what its own field denotes, whatever the forms
\* of the other fields: a has no texture and no normal index, a/b a texture
\* index only, a//c a normal index only, a/b/c both; 'f 1 2 3/4' is accepted
\* with a second reference that has neither and a third that has the
\* texture index 4 and no normal index.
C10_FaceReferencesIndependent ==
    (pc = "returned" /\ call.op = "parseFace") =>
        LET l == call.args[1]
            fields == Tail(split_without_empty(l, SP))
        IN  /\ ret.ok
            /\ Len(ret.val) = Len(fields)
            /\ \A k \in 1..Len(fields) : ret.val[k] = ReferenceOf(fields[k])
            /\ l = Words(<<kF, n1, n2, <<"3", "/", "4">>>>) =>
                 /\ ret.val[2] = FaceVertex(2, Nullopt, Nullopt)
                 /\ ret.val[3] = FaceVertex(3, Some(4), Nullopt)

\* 'f 1//2 2 3/4' has been parsed: a normal index only, neither, and a
\* texture index only
C10_Witness ==
    /\ pc = "returned"
    /\ call.op = "parseFace"
    /\ call.args[1] = Words(<<kF, <<"1", "/", "/", "2">>, n2,
                              <<"3", "/", "4">>>>)
    /\ ret.ok
    /\ ret.val[1] = FaceVertex(1, Nullopt, Some(2))
    /\ ret.val[2] = FaceVertex(2, Nullopt, Nullopt)
    /\ ret.val[3] = FaceVertex(3, Some(4), Nullopt)

---------------------------------------------------------------------------
(* Properties of the transforms.                                           *)

\* C6: once the document is built, and after any calls of rotate,
\* translate, scale, center and normalize, the cumulative scale factor is a
\* number in [0.01, 2.0].
C6_ScaleWithinBounds ==
    pc \in {"ready", "centered"} =>
        /\ ~IsNaN(_scale)
        /\ _scale >= Unit \div 100
        /\ _scale <= 2 * Unit

\* the calls of scale C7 says do nothing: a zero factor, or a product of
\* the cumulative scale and the factor below 0.01 or above 2.0
saidRefused(s, factor) ==
    \/ factor = 0
    \/ Lt(Mul(s, factor), Unit \div 100)
    \/ Gt(Mul(s, factor), 2 * Unit)

RefusedScaleStep ==
    (/\ ops' = ops + 1
     /\ call'.op = "scale"
     /\ saidRefused(_scale, call'.args[1]))
    => /\ UNCHANGED <<_vertices, _scale, exc>>
       /\ pc' # "thrown"

\* C7: a call of scale with a zero factor, or with a product of the
\* cumulative scale and the factor below 0.01 or above 2.0, changes no
\* vertex and not the cumulative scale, and raises no error.
C7_RefusedScaleIsNoOp == [][RefusedScaleStep]_vars

\* every reference of every stored face indexes a stored element
FaceRefsValid(faces, vs, ts, ns) ==
    \A k \in 1..Len(faces) :
        \A i \in 1..Len(faces[k]) :
            /\ Within(faces[k][i].vertexIndex, Len(vs))
            /\ WithinOptional(faces[k][i].textureCoordinateIndex, Len(ts))
            /\ WithinOptional(faces[k][i].normalIndex, Len(ns))

TransformStep ==
    ops' = ops + 1 =>
        /\ call'.op \in {"rotate", "translate", "scale", "center",
                         "normalize"}
        /\ Len(_vertices') = Len(_vertices)
        /\ \A i \in 1..Len(_vertices) : _vertices'[i].w = _vertices[i].w
        /\ UNCHANGED <<_texcoords, _normals, _paramSpaceVertices, _faces,
                       _verticesCount, _texcoordsCount, _normalsCount>>
        /\ call'.op # "scale" => UNCHANGED _scale
        /\ FaceRefsValid(_faces', _vertices', _texcoords', _normals')

\* C8: a call of rotate, translate, scale, center or normalize leaves the
\* lengths of the sequences, the w of every vertex, the texture
\* coordinates, the normals, the faces and the three counters as they were,
\* and the cumulative scale too unless the call is scale; every stored
\* face reference indexes an existing element afterwards.
C8_TransformsKeepStructure == [][TransformStep]_vars

\* a document of two vertices, a texture coordinate, a normal and a face
\* has been moved and then scaled to half its size
C8_Witness ==
    /\ pc = "ready"
    /\ ops >= 2
    /\ call.op = "scale"
    /\ _scale = Unit \div 2
    /\ Len(_vertices) = 2
    /\ Len(_faces) = 1
    /\ _faces[1][3].vertexIndex = 1
    /\ _vertices[1].x # _vertices[2].x

\* the statement of C9 taken to the letter: the center point is exactly
\* (0, 0, 0)
C9_Original ==
    (pc = "centered" /\ ret.set /\ Len(_vertices) >= 1) =>
        (ret.x = 0 /\ ret.y = 0 /\ ret.z = 0)

\* whether coordinate `coord` of every vertex is a number
allNumbers(vs, coord) == \A i \in 1..Len(vs) : ~IsNaN(vs[i][coord])

\* the distance from 0 a float sum and a float quotient can leave the
\* center point at
Tolerance == 2 * FloatStep

nearZero(vs, coord, c) ==
    IF allNumbers(vs, coord) THEN ~IsNaN(c) /\ Abs(c) <= Tolerance
    ELSE IsNaN(c)

\* C9: getCenterPoint() called after center() on a mesh of at least one
\* vertex returns, in each coordinate, a value within the rounding of the
\* float sum from 0 when every vertex has a number in that coordinate, and
\* NaN when some vertex has not.
C9_CenterWithinTolerance ==
    (pc = "centered" /\ ret.set /\ Len(_vertices) >= 1) =>
        /\ nearZero(_vertices, "x", ret.x)
        /\ nearZero(_vertices, "y", ret.y)
        /\ nearZero(_vertices, "z", ret.z)

\* a mesh of three vertices, transformed and then centered, has its center
\* point returned, and the rounding shows in x
C9_Witness ==
    /\ pc = "centered"
    /\ ret.set
    /\ ops >= 2
    /\ Len(_vertices) = 3
    /\ allNumbers(_vertices, "x")
    /\ ~IsNaN(ret.x)
    /\ ret.x # 0

---------------------------------------------------------------------------
(* The record parsers on their own: one call on a line whose keyword and   *)
(* field count are valid and whose fields are drawn from well-formed and   *)
(* ill-formed numbers.                                                     *)

\* 1, -2, x, 1x and -
NumberFields == {n1, m2, nx, <<"1", "x">>, <<"-">>}

\* 1, 1x, 1/x, x/1, 1//2x and 1/2/3000000000
ReferenceFields ==
    { n1, <<"1", "x">>, <<"1", "/", "x">>, <<"x", "/", "1">>,
      <<"1", "/", "/", "2", "x">>,
      <<"1", "/", "2", "/", "3", "0", "0", "0", "0", "0", "0", "0", "0",
        "0">> }

NumberCalls ==
    { Call("parseVertex", <<Words(<<kV, a, b, c>>)>>) :
        a \in NumberFields, b \in NumberFields, c \in NumberFields }
    \cup { Call("parseVertex", <<Words(<<kV, n1, n1, n1, a>>)>>) :
             a \in NumberFields }
    \cup { Call("parseTextureCoordinate", <<Words(<<kVT, a>>)>>) :
             a \in NumberFields }
    \cup { Call("parseTextureCoordinate", <<Words(<<kVT, a, b>>)>>) :
             a \in NumberFields, b \in NumberFields }
    \cup { Call("parseNormal", <<Words(<<kVN, a, b, c>>)>>) :
             a \in NumberFields, b \in NumberFields, c \in NumberFields }
    \cup { Call("parseParameterSpaceVertex", <<Words(<<kVP, a>>)>>) :
             a \in NumberFields }
    \cup { Call("parseParameterSpaceVertex", <<Words(<<kVP, a, n1, b>>)>>) :
             a \in NumberFields, b \in NumberFields }
    \cup { Call("parseFace", <<Words(<<kF, a, b, c>>)>>) :
             a \in ReferenceFields, b \in ReferenceFields,
             c \in ReferenceFields }

InitNumber ==
    /\ pc = "call"
    /\ call \in NumberCalls
    /\ file = <<>>
    /\ line = <<>>
    /\ lineNum = 0
    /\ _vertices = <<>>
    /\ _texcoords = <<>>
    /\ _normals = <<>>
    /\ _paramSpaceVertices = <<>>
    /\ _faces = <<>>
    /\ _verticesCount = 0
    /\ _texcoordsCount = 0
    /\ _normalsCount = 0
    /\ _scale = Unit
    /\ exc = NoException
    /\ objs = "unassigned"
    /\ ret = NoReturn
    /\ ops = 0

ApplyParseVertex ==
    /\ call.op = "parseVertex"
    /\ returned(parseVertex(call.args[1]))

ApplyParseTextureCoordinate ==
    /\ call.op = "parseTextureCoordinate"
    /\ returned(parseTextureCoordinate(call.args[1]))

ApplyParseNormal ==
    /\ call.op = "parseNormal"
    /\ returned(parseNormal(call.args[1]))

ApplyParseParameterSpaceVertex ==
    /\ call.op = "parseParameterSpaceVertex"
    /\ returned(parseParameterSpaceVertex(call.args[1]))

NextNumber ==
    \/ ApplyParseVertex
    \/ ApplyParseTextureCoordinate
    \/ ApplyParseNormal
    \/ ApplyParseParameterSpaceVertex
    \/ ApplyParseFace

SpecNumber == InitNumber /\ [][NextNumber]_vars

---------------------------------------------------------------------------
(* Properties of the record parsers.                                       *)

\* a well-formed number of the model's lines: an optional '-' and then one
\* or more digits, and nothing else
WellFormed(t) ==
    LET ds == IF t # <<>> /\ t[1] = "-" THEN Tail(t) ELSE t
    IN  /\ ds # <<>>
        /\ \A i \in 1..Len(ds) : ds[i] \in Digits

\* the parts of a field that must be numbers: the field itself on a v, vt,
\* vn or vp line, and on a face line its first subtoken and every later
\* subtoken that is not empty
NumberParts(op, field) ==
    IF op # "parseFace" THEN {field}
    ELSE LET subtokens == split(field, "/")
         IN  { subtokens[i] :
                 i \in { j \in 1..Len(subtokens) :
                           j = 1 \/ subtokens[j] # <<>> } }

InvalidValuesMessages ==
    { "Invalid vertex line (invalid values)",
      "Invalid texture coordinate line (invalid values)",
      "Invalid normal line (invalid values)",
      "Invalid parameter space vertex line (invalid values)",
      "Invalid face line (invalid values)" }

\* C11: a v, vt, vn, vp or f line with a valid keyword and field count and
\* with a field that is not a well-formed number is rejected by its parser
\* with the invalid-values InvalidObjFileException: it is not accepted with
\* a value read from a part of the field, and no other exception leaves the
\* parser.
C11_InvalidNumbersRejected ==
    (pc = "returned" /\ call \in NumberCalls) =>
        LET fields == Tail(split_without_empty(call.args[1], SP))
            illFormed ==
                \E k \in 1..Len(fields) :
                    \E t \in NumberParts(call.op, fields[k]) : ~WellFormed(t)
        IN  illFormed =>
                /\ ~ret.ok
                /\ ret.exc.type = "InvalidObjFileException"
                /\ ret.exc.what \in InvalidValuesMessages

---------------------------------------------------------------------------
(* Properties of the running counters.                                     *)

CountersMatch(vCount, tCount, nCount, vs, ts, ns) ==
    /\ vCount = Len(vs)
    /\ tCount = Len(ts)
    /\ nCount = Len(ns)

CountersStep ==
    /\ CountersMatch(_verticesCount, _texcoordsCount, _normalsCount,
                     _vertices, _texcoords, _normals)
    /\ CountersMatch(_verticesCount', _texcoordsCount', _normalsCount',
                     _vertices', _texcoords', _normals')
    /\ Len(file') = Len(file) + 1 =>
         LET l == file'[Len(file')]
         IN  /\ pc' = "thrown" => UNCHANGED docVars
             /\ (\/ l = <<>>
                 \/ (IF Len(l) = 0 THEN FALSE ELSE l[1] = "#")
                 \/ StartsWith(l, <<"v", "p">>)
                 \/ StartsWith(l, <<"f", SP>>))
                => UNCHANGED <<_verticesCount, _texcoordsCount,
                               _normalsCount>>

\* C12: before and after every line of load, and in every later state,
\* _verticesCount, _texcoordsCount and _normalsCount are the lengths of
\* _vertices, _texcoords and _normals; a line that fails changes no counter
\* and no sequence; a 'vp', face, blank or comment line changes none of the
\* three counters.
C12_CountersEqualLengths == [][CountersStep]_vars

\* a vertex, a texture coordinate, a parameter space vertex and a face have
\* been read: one of each is stored, and the counters are 1, 1 and 0
C12_Witness ==
    /\ pc = "load"
    /\ lineNum = 4
    /\ Len(_paramSpaceVertices) = 1
    /\ Len(_faces) = 1
    /\ Len(_vertices) = 1
    /\ Len(_texcoords) = 1
    /\ _verticesCount = 1
    /\ _texcoordsCount = 1
    /\ _normalsCount = 0

===========================================================================
